---- MODULE Spec2Model ----
(***************************************************************************)
(* A model of gpp, the generic preprocessor (src/src/lib.rs).              *)
(*                                                                         *)
(* Strings are sequences of one-character strings, so that parsing,        *)
(* splitting and substitution are computed character by character as the   *)
(* code computes them.  The Context is the five variables macros,          *)
(* inactive_stack, used_if, allow_exec and in_stack.  One action processes *)
(* one line of the top-level stream, the whole of process_line included    *)
(* (an #include runs the included file to its end inside that step).       *)
(***************************************************************************)
EXTENDS Integers, Sequences, FiniteSets, TLC

VARIABLES
    macros,          \* Context::macros: macro name -> value
    inactive_stack,  \* Context::inactive_stack
    used_if,         \* Context::used_if
    allow_exec,      \* Context::allow_exec
    in_stack,        \* Context::in_stack: the children #in is piping to
    status,          \* "idle", "running" (inside process_buf) or "hung"
    cur_name,        \* the label of the stream being processed
    num,             \* index of the next line of the stream (enumerate())
    acc,             \* the output collected so far by process_buf
    remaining,       \* lines of the stream not yet read
    result,          \* what the last finished process_* call returned
    calls,           \* number of process_* calls made so far
    input,           \* the line last given to process_line by the driver
    events,          \* what the last processed top-level line did, in order
    groups,          \* history: the open if-groups, innermost last
    wellnested,      \* history: no #elif*/#else/#endif outside a group so far
    sline,           \* substitution machine: the line being rewritten
    sorder,          \* substitution machine: iteration order of the table
    shist,           \* substitution machine: the last replacement made
    stream,          \* the lines of the string last given whole to process_str
    plan,            \* pipe machine: byte counts of the lines of an #in block
    lineno,          \* pipe machine: lines of the block the engine has begun
    wleft,           \* pipe machine: bytes of the line write_all has yet to write
    epc,             \* pipe machine: where the engine is
    closed,          \* pipe machine: the engine has dropped the child's stdin
    pin,             \* pipe machine: bytes in the pipe to the child's stdin
    cheld,           \* pipe machine: bytes the child has read and not written
    pout,            \* pipe machine: bytes in the pipe from the child's stdout
    cexit,           \* pipe machine: the child has exited
    got              \* pipe machine: bytes of output the engine has read

vars == <<macros, inactive_stack, used_if, allow_exec, in_stack, status,
          cur_name, num, acc, remaining, result, calls, input, events,
          groups, wellnested, sline, sorder, shist, stream, plan, lineno,
          wleft, epc, closed, pin, cheld, pout, cexit, got>>

ctxvars == <<macros, inactive_stack, used_if, allow_exec, in_stack>>
drivervars == <<status, cur_name, num, acc, remaining, result, calls, input,
                events, groups, wellnested>>
substvars == <<sline, sorder, shist>>
pipevars == <<plan, lineno, wleft, epc, closed, pin, cheld, pout, cexit, got>>
auxvars == <<stream, pipevars>>

----------------------------------------------------------------------------
(* Bounds of the model.                                                    *)

MaxSubst == 4      \* replacements in one line before the loop counts as endless
MaxGroups == 2     \* if-groups open at once
MaxPipes == 2      \* children open at once
MaxTextLen == 4    \* characters of a line given to the substitution machine
CondLen == 5       \* lines of a stream of conditional commands
GateLen == 3       \* lines of a stream of gated commands
PipeLen == 5       \* lines of a stream of #in blocks
FileLen == 3       \* lines of a stream of #include lines
FileCalls == 2     \* process_* calls on one Context
EditLen == 3       \* process_line calls on lines that edit the table
ClassLen == 3      \* process_line calls on lines with and without a marker
OutLen == 4        \* process_line calls on lines that print
TwiceLen == 3      \* characters of a line that is processed twice
BlockLen == 3      \* lines of a stream that may end inside an #in block
ElseLen == 4       \* process_line calls on conditional lines
ArgLen == 3        \* process_line calls on lines with a stray argument
StdinCap == 2      \* bytes the pipe to a child's stdin holds
StdoutCap == 2     \* bytes the pipe from a child's stdout holds
CatBuf == 1        \* bytes the child reads at once
PlanLines == 3     \* lines inside an #in block of the pipe machine
LineBytes == 2     \* bytes of a line inside an #in block of the pipe machine
LoopLen == 4       \* process_line calls on #define lines and text
LookupLen == 3     \* process_line calls on known and unknown commands
DepthLen == 3      \* lines of each of two streams of conditional commands
OrderLen == 4      \* lines of a stream with #in blocks and #include lines

----------------------------------------------------------------------------
(* Characters and strings.                                                 *)

Letters ==
    {"a","b","c","d","e","f","g","h","i","j","k","l","m","n","o","p","q",
     "r","s","t","u","v","w","x","y","z",
     "A","B","C","D","E","F","G","H","I","J","K","L","M","N","O","P","Q",
     "R","S","T","U","V","W","X","Y","Z"}

Digits == {"0","1","2","3","4","5","6","7","8","9"}

WhiteSpace == {" ", "\t"}

NL == "\n"
CR == "\r"

is_word_char(c) ==
    c \in Letters \cup Digits \/ c = "_"

Drop(s, n) ==
    SubSeq(s, n + 1, Len(s))

Take(s, n) ==
    SubSeq(s, 1, n)

starts_with(s, p) ==
    Len(s) >= Len(p) /\ Take(s, Len(p)) = p

ends_with(s, p) ==
    Len(s) >= Len(p) /\ Drop(s, Len(s) - Len(p)) = p

\* strip_newline that strips nothing.
strip_newline_never(line) ==
    line

\* str::strip_suffix("\r\n").or_else(strip_suffix('\n')).unwrap_or(line)
strip_newline(line) ==
    IF ends_with(line, <<CR, NL>>) THEN Take(line, Len(line) - 2)
    ELSE IF ends_with(line, <<NL>>) THEN Take(line, Len(line) - 1)
    ELSE line

\* str::trim_start
RECURSIVE trim_start(_)
trim_start(s) ==
    IF s # <<>> /\ Head(s) \in WhiteSpace THEN trim_start(Tail(s)) ELSE s

\* Positions (0-based) at which pat occurs in s.
Occurrences(s, pat) ==
    {i \in 0..(Len(s) - Len(pat)) : SubSeq(s, i + 1, i + Len(pat)) = pat}

Min(S) ==
    CHOOSE x \in S : \A y \in S : x <= y

\* str::splitn(2, pat): the text before the first occurrence of pat and the
\* text after it; no second part when pat does not occur.
splitn2(s, pat) ==
    IF Occurrences(s, pat) = {}
    THEN [before |-> s, found |-> FALSE, after |-> <<>>]
    ELSE LET i == Min(Occurrences(s, pat))
         IN  [before |-> Take(s, i), found |-> TRUE,
              after |-> Drop(s, i + Len(pat))]

----------------------------------------------------------------------------
(* Results and errors.  A FileError wraps exactly one error, so an error   *)
(* is its innermost cause together with the FileError layers around it,    *)
(* outermost first.                                                        *)

NoCause == [kind |-> "None", name |-> <<>>, status |-> 0]

Cause(kind, name, st) == [kind |-> kind, name |-> name, status |-> st]

NoError == [layers |-> <<>>, cause |-> NoCause]

Ok(s) == [tag |-> "Ok", val |-> s, err |-> NoError]

Err(kind, name, st) ==
    [tag |-> "Err", val |-> <<>>,
     err |-> [layers |-> <<>>, cause |-> Cause(kind, name, st)]]

\* The substitution loop of process_line never returns.
Hang == [tag |-> "Hang", val |-> <<>>, err |-> NoError]

\* FileError dropping the FileError layers of the error it wraps.
FileError_flat(filename, line, r) ==
    [tag |-> "Err", val |-> <<>>,
     err |-> [layers |-> <<[filename |-> filename, line |-> line]>>,
              cause |-> r.err.cause]]

\* Error::FileError { filename, line, error: Box::new(e) }
FileError(filename, line, r) ==
    [tag |-> "Err", val |-> <<>>,
     err |-> [layers |-> <<[filename |-> filename, line |-> line]>>
                           \o r.err.layers,
              cause |-> r.err.cause]]

\* What a line did, for the record of a step: a child spawned or waited for,
\* a file opened, a write to a child's input, or the line itself.
Event(ev, name, text, n) ==
    [ev |-> ev, name |-> name, text |-> text, n |-> n, arg |-> <<>>,
     defd |-> FALSE, pre |-> 0]

\* The line itself: its command name and argument, its own output (before it
\* is routed), inactive_stack before and after it, and whether its argument
\* was a key of the macro table when the line was reached.
LineEvent(ev, name, arg, text, before, after) ==
    [ev |-> ev, name |-> name, text |-> text, n |-> after.inactive_stack,
     arg |-> arg, defd |-> arg \in DOMAIN before.macros,
     pre |-> before.inactive_stack]

Ret(context, res, ev) == [ctx |-> context, res |-> res, ev |-> ev]

----------------------------------------------------------------------------
(* The shell.  What a child prints is decided by the command and by what   *)
(* it read; the model knows four commands, every other one is unknown to   *)
(* /bin/sh and exits with 127.                                             *)

Cat == <<"c","a","t">>
Echo == <<"e","c","h","o">>
False == <<"f","a","l","s","e">>
Printf == <<"p","r","i","n","t","f"," ","x">>

shell(cmd, stdin) ==
    IF cmd = Cat THEN [status |-> 0, stdout |-> stdin]
    ELSE IF cmd = Echo THEN [status |-> 0, stdout |-> <<NL>>]
    ELSE IF cmd = Printf THEN [status |-> 0, stdout |-> <<"x">>]
    ELSE IF cmd = False THEN [status |-> 1, stdout |-> <<>>]
    ELSE [status |-> 127, stdout |-> <<>>]

\* A child that never reads its input may be gone when the engine writes.
reads_stdin(cmd) ==
    cmd = Cat

process_exec(line, context) ==
    LET output == shell(line, <<>>)
        ev == <<Event("spawn", line, <<>>, 0), Event("wait", line, <<>>, 0)>>
    IN  IF output.status # 0
        THEN Ret(context, Err("ChildFailed", <<>>, output.status), ev)
        ELSE Ret(context, Ok(output.stdout), ev)

process_in(line, context) ==
    Ret([context EXCEPT !.in_stack = Append(@, [cmd |-> line, stdin |-> <<>>])],
        Ok(<<>>),
        <<Event("spawn", line, <<>>, Len(context.in_stack) + 1)>>)

\* process_endin looking at the stack before it looks at the argument.
process_endin_stack_first(line, context) ==
    IF context.in_stack = <<>>
    THEN Ret(context, Err("UnexpectedCommand", <<"e","n","d","i","n">>, 0), <<>>)
    ELSE Ret(context, Err("TooManyParameters", <<"e","n","d","i","n">>, 0), <<>>)

\* process_endin leaving on the stack a child that exited non-zero.
process_endin_keep_failed(line, context) ==
    IF line # <<>>
    THEN Ret(context, Err("TooManyParameters", <<"e","n","d","i","n">>, 0), <<>>)
    ELSE IF context.in_stack = <<>>
    THEN Ret(context, Err("UnexpectedCommand", <<"e","n","d","i","n">>, 0), <<>>)
    ELSE LET n == Len(context.in_stack)
             child == context.in_stack[n]
             popped == [context EXCEPT !.in_stack = Take(@, n - 1)]
             output == shell(child.cmd, child.stdin)
             ev == <<Event("wait", child.cmd, child.stdin, n)>>
         IN  IF output.status # 0
             THEN Ret(context, Err("ChildFailed", <<>>, output.status), ev)
             ELSE Ret(popped, Ok(output.stdout), ev)

process_endin(line, context) ==
    IF line # <<>>
    THEN Ret(context, Err("TooManyParameters", <<"e","n","d","i","n">>, 0), <<>>)
    ELSE IF context.in_stack = <<>>
    THEN Ret(context, Err("UnexpectedCommand", <<"e","n","d","i","n">>, 0), <<>>)
    ELSE LET n == Len(context.in_stack)
             child == context.in_stack[n]
             popped == [context EXCEPT !.in_stack = Take(@, n - 1)]
             output == shell(child.cmd, child.stdin)
             ev == <<Event("wait", child.cmd, child.stdin, n)>>
         IN  IF output.status # 0
             THEN Ret(popped, Err("ChildFailed", <<>>, output.status), ev)
             ELSE Ret(popped, Ok(output.stdout), ev)

----------------------------------------------------------------------------
(* The macro table and the conditional commands.                           *)

contains_key(m, k) ==
    k \in DOMAIN m

insert(m, k, v) ==
    [x \in DOMAIN m \cup {k} |-> IF x = k THEN v ELSE m[x]]

remove(m, k) ==
    [x \in DOMAIN m \ {k} |-> m[x]]

\* process_define keeping the value a name already has.
process_define_once(line, context) ==
    LET parts == splitn2(line, <<" ">>)
        name == parts.before
        value == IF parts.found THEN parts.after ELSE <<>>
    IN  IF contains_key(context.macros, name)
        THEN Ret(context, Ok(<<>>), <<>>)
        ELSE Ret([context EXCEPT !.macros = insert(@, name, value)],
                 Ok(<<>>), <<>>)

process_define(line, context) ==
    LET parts == splitn2(line, <<" ">>)
        name == parts.before
        value == IF parts.found THEN parts.after ELSE <<>>
    IN  Ret([context EXCEPT !.macros = insert(@, name, value)], Ok(<<>>), <<>>)

process_undef(line, context) ==
    Ret([context EXCEPT !.macros = remove(@, line)], Ok(<<>>), <<>>)

\* process_ifdef with its test turned round.
process_ifdef_flipped(line, context, inverted) ==
    IF context.inactive_stack > 0
    THEN Ret([context EXCEPT !.inactive_stack = @ + 1], Ok(<<>>), <<>>)
    ELSE IF contains_key(context.macros, line) # inverted
    THEN Ret([context EXCEPT !.inactive_stack = 1, !.used_if = FALSE],
             Ok(<<>>), <<>>)
    ELSE Ret([context EXCEPT !.used_if = TRUE], Ok(<<>>), <<>>)

process_ifdef(line, context, inverted) ==
    IF context.inactive_stack > 0
    THEN Ret([context EXCEPT !.inactive_stack = @ + 1], Ok(<<>>), <<>>)
    ELSE IF contains_key(context.macros, line) = inverted
    THEN Ret([context EXCEPT !.inactive_stack = 1, !.used_if = FALSE],
             Ok(<<>>), <<>>)
    ELSE Ret([context EXCEPT !.used_if = TRUE], Ok(<<>>), <<>>)

process_elifdef(line, context, inverted) ==
    IF context.inactive_stack = 0
    THEN Ret([context EXCEPT !.inactive_stack = 1], Ok(<<>>), <<>>)
    ELSE IF /\ context.inactive_stack = 1
            /\ ~context.used_if
            /\ contains_key(context.macros, line) # inverted
    THEN Ret([context EXCEPT !.inactive_stack = 0], Ok(<<>>), <<>>)
    ELSE Ret(context, Ok(<<>>), <<>>)

\* process_else re-activating whatever used_if says.
process_else_always(line, context) ==
    IF line # <<>>
    THEN Ret(context, Err("TooManyParameters", <<"e","l","s","e">>, 0), <<>>)
    ELSE Ret([context EXCEPT !.inactive_stack =
                 IF @ = 0 THEN 1 ELSE IF @ = 1 THEN 0 ELSE @],
             Ok(<<>>), <<>>)

process_else(line, context) ==
    IF line # <<>>
    THEN Ret(context, Err("TooManyParameters", <<"e","l","s","e">>, 0), <<>>)
    ELSE Ret([context EXCEPT !.inactive_stack =
                 IF @ = 0 THEN 1
                 ELSE IF @ = 1 /\ ~context.used_if THEN 0
                 ELSE @],
             Ok(<<>>), <<>>)

\* process_endif making the context active whatever the depth.
process_endif_reset(line, context) ==
    IF line # <<>>
    THEN Ret(context, Err("TooManyParameters", <<"e","n","d","i","f">>, 0), <<>>)
    ELSE Ret([context EXCEPT !.inactive_stack = 0], Ok(<<>>), <<>>)

process_endif(line, context) ==
    IF line # <<>>
    THEN Ret(context, Err("TooManyParameters", <<"e","n","d","i","f">>, 0), <<>>)
    ELSE Ret([context EXCEPT !.inactive_stack = IF @ # 0 THEN @ - 1 ELSE @],
             Ok(<<>>), <<>>)

----------------------------------------------------------------------------
(* Macro substitution.                                                     *)

None == [some |-> FALSE, val |-> <<>>]

Some(v) == [some |-> TRUE, val |-> v]

\* The closure of replace_next_macro for one entry (name, value) of the table.
\* try_macro without the look at the character after the match.
try_macro_no_after(line, name, value) ==
    LET parts == splitn2(line, name)
        before == parts.before
        after == parts.after
    IN  IF ~parts.found THEN None
        ELSE IF before # <<>> /\ is_word_char(before[Len(before)])
        THEN None
        ELSE Some(before \o value \o after)

try_macro(line, name, value) ==
    LET parts == splitn2(line, name)
        before == parts.before
        after == parts.after
    IN  IF ~parts.found THEN None
        ELSE IF \/ (before # <<>> /\ is_word_char(before[Len(before)]))
                \/ (after # <<>> /\ is_word_char(after[1]))
        THEN None
        ELSE Some(before \o value \o after)

\* HashMap::iter() over the table: the keys in the order the map stores them,
\* which is no order the program controls; order lists every possible key.
iter(m, order) ==
    SelectSeq(order, LAMBDA k : k \in DOMAIN m)

RECURSIVE find_map(_, _, _)
find_map(line, m, keys) ==
    IF keys = <<>> THEN None
    ELSE LET r == try_macro(line, Head(keys), m[Head(keys)])
         IN  IF r.some THEN r ELSE find_map(line, m, Tail(keys))

replace_next_macro(line, m, order) ==
    find_map(line, m, iter(m, order))

\* while let Some(s) = replace_next_macro(&line, &context.macros) { line = s; }
\* fuel counts the replacements still allowed before the loop is taken to
\* run forever.
RECURSIVE substitute(_, _, _, _)
substitute(line, m, order, fuel) ==
    LET r == replace_next_macro(line, m, order)
    IN  IF ~r.some THEN Ok(line)
        ELSE IF fuel = 0 THEN Hang
        ELSE substitute(r.val, m, order, fuel - 1)

----------------------------------------------------------------------------
(* The command table and process_line.                                     *)

S_exec == <<"e","x","e","c">>
S_in == <<"i","n">>
S_endin == <<"e","n","d","i","n">>
S_include == <<"i","n","c","l","u","d","e">>
S_define == <<"d","e","f","i","n","e">>
S_undef == <<"u","n","d","e","f">>
S_ifdef == <<"i","f","d","e","f">>
S_ifndef == <<"i","f","n","d","e","f">>
S_elifdef == <<"e","l","i","f","d","e","f">>
S_elifndef == <<"e","l","i","f","n","d","e","f">>
S_else == <<"e","l","s","e">>
S_endif == <<"e","n","d","i","f">>

Command(name, requires_exec, ignored_by_if) ==
    [name |-> name, requires_exec |-> requires_exec,
     ignored_by_if |-> ignored_by_if]

COMMANDS ==
    << Command(S_exec, TRUE, FALSE),
       Command(S_in, TRUE, FALSE),
       Command(S_endin, TRUE, FALSE),
       Command(S_include, FALSE, FALSE),
       Command(S_define, FALSE, FALSE),
       Command(S_undef, FALSE, FALSE),
       Command(S_ifdef, FALSE, TRUE),
       Command(S_ifndef, FALSE, TRUE),
       Command(S_elifdef, FALSE, TRUE),
       Command(S_elifndef, FALSE, TRUE),
       Command(S_else, FALSE, TRUE),
       Command(S_endif, FALSE, TRUE) >>

\* find_command without the filter on requires_exec.
find_command_unfiltered(command_name, allow) ==
    LET hits == SelectSeq(COMMANDS, LAMBDA c : c.name = command_name)
    IN  IF hits = <<>> THEN None ELSE Some(Head(hits))

\* COMMANDS.iter().filter(allow_exec || !requires_exec).find(name == ...)
find_command(command_name, allow) ==
    LET hits == SelectSeq(COMMANDS,
                    LAMBDA c : (allow \/ ~c.requires_exec)
                               /\ c.name = command_name)
    IN  IF hits = <<>> THEN None ELSE Some(Head(hits))

\* classify without the escape: a second '#' does not make the line text.
classify_no_escape(line) ==
    LET l == strip_newline(line)
    IN  IF l # <<>> /\ Head(l) = "#"
        THEN LET parts == splitn2(trim_start(Tail(l)), <<" ">>)
             IN  [text |-> FALSE, body |-> <<>>,
                  command_name |-> parts.before,
                  content |-> trim_start(IF parts.found
                                         THEN parts.after ELSE <<>>)]
        ELSE [text |-> TRUE, body |-> l, command_name |-> <<>>,
              content |-> <<>>]

\* The first match of process_line: Line::Text or Line::Command.
classify(line) ==
    LET l == strip_newline(line)
    IN  IF l # <<>> /\ Head(l) = "#"
        THEN LET rest == Tail(l)
             IN  IF rest # <<>> /\ Head(rest) = "#"
                 THEN [text |-> TRUE, body |-> rest,
                       command_name |-> <<>>, content |-> <<>>]
                 ELSE LET parts == splitn2(trim_start(rest), <<" ">>)
                      IN  [text |-> FALSE, body |-> <<>>,
                           command_name |-> parts.before,
                           content |-> trim_start(IF parts.found
                                                  THEN parts.after ELSE <<>>)]
        ELSE [text |-> TRUE, body |-> l, command_name |-> <<>>,
              content |-> <<>>]

\* route writing to the outermost child instead of the innermost.
route_outermost(own, context, epipe) ==
    LET n == Len(context.in_stack)
    IN  IF n = 0 THEN Ret(context, Ok(own), <<>>)
        ELSE IF epipe /\ own # <<>> /\ ~reads_stdin(context.in_stack[1].cmd)
        THEN Ret(context, Err("IoError", <<>>, 0), <<>>)
        ELSE Ret([context EXCEPT !.in_stack[1].stdin = @ \o own],
                 Ok(<<>>),
                 <<Event("write", context.in_stack[1].cmd, own, 1)>>)

\* The end of process_line: the line's output goes to the innermost child
\* when there is one, else it is the line's result.
route(own, context, epipe) ==
    LET n == Len(context.in_stack)
    IN  IF n = 0 THEN Ret(context, Ok(own), <<>>)
        ELSE IF epipe /\ own # <<>> /\ ~reads_stdin(context.in_stack[n].cmd)
        THEN Ret(context, Err("IoError", <<>>, 0), <<>>)
        ELSE Ret([context EXCEPT !.in_stack[n].stdin = @ \o own],
                 Ok(<<>>),
                 <<Event("write", context.in_stack[n].cmd, own, n)>>)

RECURSIVE process_line(_, _, _)
RECURSIVE process_buf_from(_, _, _, _, _, _, _)
RECURSIVE collect(_, _, _, _, _, _, _)
RECURSIVE process_file(_, _, _)
RECURSIVE execute(_, _, _, _)

\* r with the macros of context.
scoped(context, r) ==
    Ret([r.ctx EXCEPT !.macros = context.macros], r.res, r.ev)

\* process_include giving the included file a scope of its own: the macros
\* it leaves are dropped at its end.
process_include_scoped(line, context, env) ==
    scoped(context, process_file(line, context, env))

process_include(line, context, env) ==
    process_file(line, context, env)

\* (command.execute)(content, context)
execute(name, content, context, env) ==
    CASE name = S_exec -> process_exec(content, context)
      [] name = S_in -> process_in(content, context)
      [] name = S_endin -> process_endin(content, context)
      [] name = S_include -> process_include(content, context, env)
      [] name = S_define -> process_define(content, context)
      [] name = S_undef -> process_undef(content, context)
      [] name = S_ifdef -> process_ifdef(content, context, FALSE)
      [] name = S_ifndef -> process_ifdef(content, context, TRUE)
      [] name = S_elifdef -> process_elifdef(content, context, FALSE)
      [] name = S_elifndef -> process_elifdef(content, context, TRUE)
      [] name = S_else -> process_else(content, context)
      [] name = S_endif -> process_endif(content, context)

\* suppressed for text alone: every command runs while inactive.
suppressed_text_only(c, cmd, context) ==
    context.inactive_stack > 0 /\ c.text

\* Whether the second match of process_line takes its first arm.
suppressed(c, cmd, context) ==
    context.inactive_stack > 0 /\ (c.text \/ ~cmd.val.ignored_by_if)

\* The second match of process_line.
second_match(c, cmd, context, env) ==
    IF suppressed(c, cmd, context)
    THEN Ret(context, Ok(<<>>), <<>>)
    ELSE IF c.text
    THEN Ret(context,
             substitute(c.body \o <<NL>>, context.macros, env.order,
                        MaxSubst),
             <<>>)
    ELSE execute(c.command_name, c.content, context, env)

\* The end of process_line, r being what the second match gave: its error
\* is returned as it is (the ? operator), its output is routed.
routed(c, context, env, r) ==
    IF r.res.tag # "Ok"
    THEN Ret(r.ctx, r.res,
             r.ev \o <<LineEvent("failed", c.command_name, c.content, <<>>,
                                 context, r.ctx)>>)
    ELSE LET w == route(r.res.val, r.ctx, env.epipe)
         IN  Ret(w.ctx, w.res,
                 r.ev
                 \o <<LineEvent(IF c.text THEN "text" ELSE "command",
                                c.command_name, c.content, r.res.val,
                                context, r.ctx)>>
                 \o w.ev)

\* process_line looking at inactive_stack before it looks the command up: a
\* name it does not know is passed over inside an inactive branch.
process_line_gate_first(line, context, env) ==
    LET c == classify(line)
        cmd == IF c.text THEN None
               ELSE find_command(c.command_name, context.allow_exec)
    IN  IF ~c.text /\ ~cmd.some /\ context.inactive_stack = 0
        THEN Ret(context, Err("InvalidCommand", c.command_name, 0),
                 <<LineEvent("invalid", c.command_name, c.content, <<>>,
                             context, context)>>)
        ELSE IF ~c.text /\ ~cmd.some
        THEN routed(c, context, env, Ret(context, Ok(<<>>), <<>>))
        ELSE routed(c, context, env, second_match(c, cmd, context, env))

process_line(line, context, env) ==
    LET c == classify(line)
        cmd == IF c.text THEN None
               ELSE find_command(c.command_name, context.allow_exec)
    IN  IF ~c.text /\ ~cmd.some
        THEN Ret(context, Err("InvalidCommand", c.command_name, 0),
                 <<LineEvent("invalid", c.command_name, c.content, <<>>,
                             context, context)>>)
        ELSE routed(c, context, env, second_match(c, cmd, context, env))

----------------------------------------------------------------------------
(* Streams and files.                                                      *)

\* "#name" or "#name arg"
Cmd(name, arg) ==
    <<"#">> \o name \o (IF arg = <<>> THEN <<>> ELSE <<" ">> \o arg)

A == <<"A">>
B == <<"B">>
X == <<"x">>
Y == <<"y">>
S_bad == <<"b","a","d">>
StringLabel == <<"<","s","t","r","i","n","g",">">>

\* The files an #include can name: the lines BufRead::lines() yields for each.
\* No file includes itself, directly or not: such an include never returns.
Files ==
    (<<"d">> :> << A, Cmd(S_define, B \o <<" ">> \o Y), Cmd(S_undef, A), B >>)
    @@ (<<"e">> :> << X, Cmd(S_bad, <<>>), Cmd(S_define, B \o <<" ">> \o Y) >>)
    @@ (<<"n">> :> << Cmd(S_undef, A), Cmd(S_include, <<"e">>), A >>)
    @@ (<<"u">> :> << Cmd(S_ifndef, A), B >>)
    @@ (<<"p">> :> << B, Cmd(S_in, Cat), A >>)

\* wrap counting the lines from 1.
wrap_one_based(r, buf_name, n) ==
    IF r.res.tag = "Err" THEN FileError(buf_name, n + 1, r.res) ELSE r.res

\* The map_err of the closure process_buf maps over the lines: r is what
\* process_line returned for line number n.
wrap(r, buf_name, n) ==
    IF r.res.tag = "Err" THEN FileError(buf_name, n, r.res) ELSE r.res

\* lines().enumerate().map(closure) from line number i - 1 on: the closure
\* is applied to one line and collect takes what it gave.
process_buf_from(lines, i, buf_name, context, env, out, ev) ==
    IF i > Len(lines) THEN Ret(context, Ok(out), ev)
    ELSE collect(lines, i, buf_name, env, out, ev,
                 process_line(lines[i], context, env))

\* collect::<Result<String, Error>>() given r by the closure for line number
\* i - 1: it goes on after an Ok and stops at the first Err.
collect(lines, i, buf_name, env, out, ev, r) ==
    IF r.res.tag = "Ok"
    THEN process_buf_from(lines, i + 1, buf_name, r.ctx, env,
                          out \o r.res.val, ev \o r.ev)
    ELSE Ret(r.ctx, wrap(r, buf_name, i - 1), ev \o r.ev)

process_buf(lines, buf_name, context, env) ==
    process_buf_from(lines, 1, buf_name, context, env, <<>>, <<>>)

\* What process_file returns once File::open succeeded: r, what process_buf
\* gave for the file's lines.
opened(filename, r) ==
    Ret(r.ctx, r.res, <<Event("open", filename, <<>>, 1)>> \o r.ev)

process_file(filename, context, env) ==
    IF filename \notin DOMAIN Files
    THEN Ret(context, Err("IoError", filename, 0),
             <<Event("open", filename, <<>>, 0)>>)
    ELSE opened(filename,
                process_buf(Files[filename], filename, context, env))

----------------------------------------------------------------------------
(* History of the if-groups, kept beside the program's state to state the  *)
(* properties of groups: it is computed from the lines processed and their *)
(* nesting alone, never read by the program.                               *)

NoGroup ==
    [opener |-> <<>>, outer |-> FALSE, want |-> FALSE, plain |-> FALSE,
     fired |-> 0, else_seen |-> FALSE, proper |-> FALSE, depth |-> 0,
     shut |-> FALSE]

IsCommand(e, names) ==
    e.ev = "command" /\ e.name \in names

\* A group opened by e: whether it was opened from an active context, whether
\* its test is to pass, that it has no #elif*/#else yet, how many of its
\* branches have been active, whether it is of the proper form (at most
\* one #else, and no branch after it), inactive_stack before its opening line,
\* and whether its present branch began with inactive_stack above 0.
OpenGroup(e) ==
    [opener |-> e.name,
     outer |-> e.pre = 0,
     want |-> (e.defd # (e.name = S_ifndef)),
     plain |-> TRUE,
     fired |-> IF e.n = 0 THEN 1 ELSE 0,
     else_seen |-> FALSE,
     proper |-> TRUE,
     depth |-> e.pre,
     shut |-> e.n > 0]

NextBranch(g, e) ==
    [g EXCEPT !.plain = FALSE,
              !.fired = IF e.n = 0 /\ @ < 2 THEN @ + 1 ELSE @,
              !.else_seen = @ \/ e.name = S_else,
              !.proper = @ /\ ~g.else_seen,
              !.shut = e.n > 0]

Top(gs) ==
    IF gs = <<>> THEN NoGroup ELSE gs[Len(gs)]

ApplyEvent(h, e) ==
    LET gs == h.groups
        gs2 == IF IsCommand(e, {S_ifdef, S_ifndef})
                   THEN Append(gs, OpenGroup(e))
               ELSE IF gs = <<>> THEN gs
               ELSE IF IsCommand(e, {S_elifdef, S_elifndef, S_else})
                   THEN [gs EXCEPT ![Len(gs)] = NextBranch(@, e)]
               ELSE IF IsCommand(e, {S_endif})
                   THEN Take(gs, Len(gs) - 1)
               ELSE gs
        stray == gs = <<>> /\ IsCommand(e, {S_elifdef, S_elifndef, S_else,
                                            S_endif})
    IN  [groups |-> gs2,
         wellnested |-> h.wellnested /\ ~stray,
         log |-> Append(h.log, [e |-> e, ingroup |-> gs2 # <<>>,
                                g |-> Top(gs2),
                                wn |-> h.wellnested /\ ~stray])]

RECURSIVE Observe(_, _)
Observe(h, evs) ==
    IF evs = <<>> THEN h ELSE Observe(ApplyEvent(h, Head(evs)), Tail(evs))

----------------------------------------------------------------------------
(* The driver: calls of process_str, line by line, and of process_file.    *)

NoResult == [tag |-> "None", val |-> <<>>, err |-> NoError]

Context ==
    [macros |-> macros, inactive_stack |-> inactive_stack,
     used_if |-> used_if, allow_exec |-> allow_exec, in_stack |-> in_stack]

SetContext(c) ==
    /\ macros' = c.macros
    /\ inactive_stack' = c.inactive_stack
    /\ used_if' = c.used_if
    /\ allow_exec' = c.allow_exec
    /\ in_stack' = c.in_stack

SetHistory(evs) ==
    LET h == Observe([groups |-> groups, wellnested |-> wellnested,
                      log |-> <<>>], evs)
    IN  /\ groups' = h.groups
        /\ wellnested' = h.wellnested
        /\ events' = h.log

MacroNames == {A, B}

Orders == {<<A, B>>, <<B, A>>}

\* What a step cannot know beforehand: the order in which the table is
\* iterated, and whether a child that does not read its input has exited
\* before the engine writes to it.  Where process_line cannot read one of the
\* two (the order: only text and included text is substituted; the exit: only
\* with a child open that does not read, and no file of Files opens one), a
\* single value stands for all.
EnvsFor(l) ==
    LET c == classify(l)
        inc == ~c.text /\ c.command_name = S_include
    IN  [order : IF c.text \/ inc THEN Orders ELSE {<<A, B>>},
         epipe : IF \E i \in DOMAIN in_stack :
                       ~reads_stdin(in_stack[i].cmd)
                 THEN BOOLEAN ELSE {FALSE}]

\* The tables a caller may seed the Context with.
InitMacros ==
    {<<>>, (A :> X), (A :> X) @@ (B :> Y)}

\* Context::new(), new_exec() or from_macros(), before any process_* call.
InitContext ==
    /\ macros \in InitMacros
    /\ inactive_stack = 0
    /\ used_if = FALSE
    /\ allow_exec \in BOOLEAN
    /\ in_stack = <<>>

InitDriver ==
    /\ status = "idle"
    /\ cur_name = <<>>
    /\ num = 0
    /\ acc = <<>>
    /\ remaining = 0
    /\ result = NoResult
    /\ calls = 0
    /\ input = <<>>
    /\ events = <<>>
    /\ groups = <<>>
    /\ wellnested = TRUE

InitSubst ==
    /\ sline = <<>>
    /\ sorder = <<>>
    /\ shist = <<>>

\* No child with pipes of bounded size has been spawned.
NoPipes ==
    /\ plan = <<>>
    /\ lineno = 0
    /\ wleft = 0
    /\ epc = "idle"
    /\ closed = FALSE
    /\ pin = 0
    /\ cheld = 0
    /\ pout = 0
    /\ cexit = FALSE
    /\ got = 0

\* No string has been given whole to process_str.
InitAux ==
    stream = <<>> /\ NoPipes

\* process_str(s, context) is entered: s has n lines.
CallStr(n, max_calls) ==
    /\ status = "idle"
    /\ calls < max_calls
    /\ status' = "running"
    /\ cur_name' = StringLabel
    /\ num' = 0
    /\ acc' = <<>>
    /\ remaining' = n
    /\ result' = NoResult
    /\ calls' = calls + 1
    /\ events' = <<>>
    /\ UNCHANGED <<ctxvars, input, groups, wellnested, substvars,
                   auxvars>>

\* The Context, and the history of the groups, after a call that gave r.
Took(r) ==
    /\ SetContext(r.ctx)
    /\ SetHistory(r.ev)
    /\ Len(groups') <= MaxGroups
    /\ Len(in_stack') <= MaxPipes

\* What process_buf does with r, given by process_line for line number num.
Collected(r) ==
    /\ Took(r)
    /\ CASE r.res.tag = "Ok" ->
              /\ acc' = acc \o r.res.val
              /\ num' = num + 1
              /\ UNCHANGED <<status, result>>
         [] r.res.tag = "Err" ->
              /\ result' = wrap(r, cur_name, num)
              /\ status' = "idle"
              /\ UNCHANGED <<acc, num>>
         [] r.res.tag = "Hang" ->
              /\ status' = "hung"
              /\ UNCHANGED <<acc, num, result>>

\* What the caller of process_file or process_line has when it gave r.
Returned(r) ==
    /\ Took(r)
    /\ IF r.res.tag = "Hang"
       THEN status' = "hung" /\ result' = NoResult
       ELSE status' = "idle" /\ result' = r.res

\* The next line of the stream goes through process_line.
Line(l, env) ==
    /\ status = "running"
    /\ remaining > 0
    /\ Collected(process_line(l, Context, env))
    /\ remaining' = remaining - 1
    /\ input' = l
    /\ UNCHANGED <<cur_name, calls, substvars,
                   auxvars>>

\* The stream is at its end: collect() returns what was gathered.
Return ==
    /\ status = "running"
    /\ remaining = 0
    /\ result' = Ok(acc)
    /\ status' = "idle"
    /\ events' = <<>>
    /\ UNCHANGED <<ctxvars, cur_name, num, acc, remaining, calls, input,
                   groups, wellnested, substvars,
                   auxvars>>

\* process_file(filename, context), called by the program's user.
CallFile(filename, env, max_calls) ==
    /\ status = "idle"
    /\ calls < max_calls
    /\ Returned(process_file(filename, Context, env))
    /\ cur_name' = filename
    /\ num' = 0
    /\ acc' = <<>>
    /\ remaining' = 0
    /\ calls' = calls + 1
    /\ UNCHANGED <<input, substvars,
                   auxvars>>

\* process_line(line, context), called by the program's user.
CallLine(l, env, max_calls) ==
    /\ status = "idle"
    /\ calls < max_calls
    /\ Returned(process_line(l, Context, env))
    /\ input' = l
    /\ calls' = calls + 1
    /\ UNCHANGED <<cur_name, num, acc, remaining, substvars,
                   auxvars>>

\* process_str(s, context), called by the program's user and run to its
\* end in one step: lines are the lines of s.
CallBuf(lines, env, max_calls) ==
    /\ status = "idle"
    /\ calls < max_calls
    /\ Returned(process_buf(lines, StringLabel, Context, env))
    /\ stream' = lines
    /\ cur_name' = StringLabel
    /\ calls' = calls + 1
    /\ UNCHANGED <<num, acc, remaining, input, substvars, pipevars>>

\* Context::exec(allow_exec), between two calls.
exec(b) ==
    /\ status = "idle"
    /\ allow_exec # b
    /\ allow_exec' = b
    /\ UNCHANGED <<macros, inactive_stack, used_if, in_stack, drivervars,
                   substvars,
                   auxvars>>

----------------------------------------------------------------------------
(* Conditional groups: streams of #ifdef/#ifndef/#elifdef/#else/#endif,    *)
(* text, #define and #undef.                                               *)

CondLines ==
    {Cmd(S_ifdef, A), Cmd(S_ifndef, A), Cmd(S_elifdef, A), Cmd(S_else, <<>>),
     Cmd(S_endif, <<>>), A, Cmd(S_define, A \o <<" ">> \o X),
     Cmd(S_undef, A)}

InitCond ==
    InitContext /\ InitDriver /\ InitSubst /\ InitAux

NextCond ==
    \/ \E n \in 0..CondLen : CallStr(n, 1)
    \/ \E l \in CondLines : \E env \in EnvsFor(l) : Line(l, env)
    \/ Return

SpecCond == InitCond /\ [][NextCond]_vars

\* The text lines the last step processed, with the group each was in.
TextSeen ==
    {events[i] : i \in {j \in DOMAIN events : events[j].e.ev = "text"}}

Emitted(o) ==
    o.e.text # <<>>

\* C1: in a group opened from an active context that has no #elif*/#else so
\* far, a text line is emitted if and only if the opening test was to pass,
\* that is NAME was a key when #ifdef NAME was processed (was not, for
\* #ifndef NAME), whatever #define/#undef lines came since.
C1_IfdefEmitsIffDefined ==
    \A o \in TextSeen :
        (o.wn /\ o.ingroup /\ o.g.plain /\ o.g.outer)
            => (Emitted(o) <=> o.g.want)

\* A text line emitted in the branch of '#ifdef A' after A was undefined
\* inside that branch.
C1_Witness ==
    /\ A \notin DOMAIN macros
    /\ \E o \in TextSeen :
          /\ o.wn /\ o.ingroup /\ o.g.plain /\ o.g.outer /\ o.g.want
          /\ o.g.opener = S_ifdef
          /\ Emitted(o)
          /\ o.e.text = <<"A", NL>>

\* C2: in a well-nested stream no text line is emitted in a second active
\* branch of one group: a group has at most one branch that ever emits.
\* It is stated for the groups of the proper form alone (#ifdef or #ifndef,
\* then #elifdef/#elifndef lines, then at most one #else), where nobody
\* doubts what the branches are.
C2_AtMostOneBranchActive ==
    \A o \in TextSeen :
        (o.wn /\ o.ingroup /\ o.g.proper /\ Emitted(o)) => o.g.fired <= 1

----------------------------------------------------------------------------
(* The substitution loop of process_line on a text line, one replacement   *)
(* a step: sline is the line, status is "running" until                    *)
(* replace_next_macro finds nothing, num counts the replacements.          *)

SubstAlphabet == {"A", "B", "_", " "}

RECURSIVE Strings(_)
Strings(n) ==
    IF n = 0 THEN {<<>>}
    ELSE Strings(n - 1)
         \cup {Append(s, c) : s \in {t \in Strings(n - 1) : Len(t) = n - 1},
                              c \in SubstAlphabet}

\* Tables without a macro that expands to itself, directly or not.
SubstTables ==
    {(A :> X), (A :> B) @@ (B :> X), (A :> <<>>) @@ (B :> <<"A", " ", "A">>)}

Perms(S) ==
    {f \in [1..Cardinality(S) -> S] : \A i, j \in DOMAIN f : i # j => f[i] # f[j]}

InitSubstitution ==
    /\ macros \in SubstTables
    /\ inactive_stack = 0
    /\ used_if = FALSE
    /\ allow_exec = FALSE
    /\ in_stack = <<>>
    /\ sorder \in Perms(DOMAIN macros)
    /\ \E text \in Strings(MaxTextLen) : sline = text \o <<NL>>
    /\ shist = <<>>
    /\ status = "running"
    /\ cur_name = <<>>
    /\ num = 0
    /\ acc = <<>>
    /\ remaining = 0
    /\ result = NoResult
    /\ calls = 1
    /\ input = <<>>
    /\ events = <<>>
    /\ groups = <<>>
    /\ wellnested = TRUE
    /\ InitAux

\* while let Some(s) = replace_next_macro(&line, &context.macros) { line = s; }
SubstStep ==
    /\ status = "running"
    /\ num < MaxSubst
    /\ LET r == replace_next_macro(sline, macros, sorder)
       IN  /\ r.some
           /\ sline' = r.val
           /\ shist' = <<sline>>
           /\ num' = num + 1
    /\ UNCHANGED <<ctxvars, status, cur_name, acc, remaining, result, calls,
                   input, events, groups, wellnested, sorder, auxvars>>

\* replace_next_macro returned None: the loop ends and the line is returned.
SubstDone ==
    /\ status = "running"
    /\ ~replace_next_macro(sline, macros, sorder).some
    /\ status' = "idle"
    /\ result' = Ok(sline)
    /\ UNCHANGED <<ctxvars, cur_name, num, acc, remaining, calls, input,
                   events, groups, wellnested, substvars,
                   auxvars>>

NextSubst ==
    SubstStep \/ SubstDone

SpecSubst == InitSubstitution /\ [][NextSubst]_vars

\* name stands at position i (0-based) of line with no word character right
\* before it and none right after it.
WholeWordAt(line, name, i) ==
    /\ i \in Occurrences(line, name)
    /\ i > 0 => ~is_word_char(line[i])
    /\ i + Len(name) < Len(line) => ~is_word_char(line[i + Len(name) + 1])

ReplacedAt(line, name, value, i) ==
    Take(line, i) \o value \o Drop(line, i + Len(name))

\* C3: every replacement the loop makes replaces an occurrence of a macro
\* name whose neighbours (where there are any) are neither alphanumeric nor
\* '_': the line after a step is the line before it with one whole-word
\* occurrence of one key replaced by its value.
C3_WordBoundary ==
    shist # <<>> =>
        \E name \in DOMAIN macros :
            \E i \in Occurrences(shist[1], name) :
                /\ WholeWordAt(shist[1], name, i)
                /\ sline = ReplacedAt(shist[1], name, macros[name], i)

\* The loop has ended after a replacement, and the line still holds a macro
\* name inside a larger identifier.
C3_Witness ==
    /\ status = "idle"
    /\ shist # <<>>
    /\ \E name \in DOMAIN macros : Occurrences(sline, name) # {}

\* C4: the line process_line returns for a text line holds no whole-word
\* occurrence of any key of the table.
C4_NoMacroLeft ==
    status = "idle" =>
        \A name \in DOMAIN macros :
            \A i \in Occurrences(result.val, name) :
                ~WholeWordAt(result.val, name, i)

----------------------------------------------------------------------------
(* Gating: lines given one by one to process_line, with the exec           *)
(* permission switched by the caller between lines.                        *)

ExecFamily == {S_exec, S_in, S_endin}

Conditionals ==
    {S_ifdef, S_ifndef, S_elifdef, S_elifndef, S_else, S_endif}

GateLines ==
    {Cmd(S_exec, Echo), Cmd(S_in, Cat), Cmd(S_endin, <<>>),
     Cmd(S_include, <<"d">>), Cmd(S_define, B \o <<" ">> \o Y),
     Cmd(S_undef, A), A, Cmd(S_ifdef, B), Cmd(S_endif, <<>>)}

CommandNames ==
    {COMMANDS[i].name : i \in DOMAIN COMMANDS}

IsText(l) ==
    l = <<>> \/ Head(l) # "#"

\* The command name written on a line of the form "#name" or "#name arg"
\* ("" when the line is none of these).
NameOn(l) ==
    LET hits == {n \in CommandNames :
                    \/ l = Cmd(n, <<>>)
                    \/ starts_with(l, Cmd(n, <<>>) \o <<" ">>)}
    IN  IF hits = {} THEN <<>> ELSE CHOOSE n \in hits : TRUE

InitGate ==
    InitContext /\ InitDriver /\ InitSubst /\ InitAux

NextGate ==
    \/ \E l \in GateLines : \E env \in EnvsFor(l) : CallLine(l, env, GateLen)
    \/ \E b \in BOOLEAN : exec(b)

SpecGate == InitGate /\ [][NextGate]_vars

\* A step that is one call of process_line.
LineStep ==
    calls' = calls + 1

Effects(evs, kinds) ==
    {i \in DOMAIN evs : evs[i].e.ev \in kinds}

\* C5: with allow_exec false a line named exec, in or endin fails with
\* InvalidCommand carrying that name, spawns nothing and leaves in_stack as
\* it was; with allow_exec true it reaches its handler (exec spawns a child,
\* in pushes one, endin pops one or fails with UnexpectedCommand, when the
\* context is active); and no line changes allow_exec.
C5_ExecGate ==
    [][LineStep =>
        /\ allow_exec' = allow_exec
        /\ (NameOn(input') \in ExecFamily /\ ~allow_exec) =>
              /\ result'.tag = "Err"
              /\ result'.err.layers = <<>>
              /\ result'.err.cause.kind = "InvalidCommand"
              /\ result'.err.cause.name = NameOn(input')
              /\ in_stack' = in_stack
              /\ Effects(events', {"spawn", "wait", "write"}) = {}
        /\ (NameOn(input') \in ExecFamily /\ allow_exec) =>
              /\ result'.err.cause.kind # "InvalidCommand"
              /\ (inactive_stack = 0 /\ NameOn(input') = S_exec) =>
                    Effects(events', {"spawn"}) # {}
              /\ (inactive_stack = 0 /\ NameOn(input') = S_in) =>
                    Len(in_stack') = Len(in_stack) + 1
              /\ (inactive_stack = 0 /\ NameOn(input') = S_endin) =>
                    IF in_stack = <<>>
                    THEN result'.err.cause.kind = "UnexpectedCommand"
                    ELSE Len(in_stack') = Len(in_stack) - 1
    ]_vars

\* '#endin' was refused for want of permission while a child was open.
C5_Witness ==
    /\ ~allow_exec
    /\ in_stack # <<>>
    /\ input = Cmd(S_endin, <<>>)
    /\ result.tag = "Err"
    /\ result.err.cause.kind = "InvalidCommand"
    /\ result.err.cause.name = S_endin

\* C6: while inactive_stack > 0 a text line and a recognized define, undef,
\* include, exec, in or endin line return the empty string and change
\* nothing: the whole Context stays as it was, no file is opened, no child
\* is spawned or waited for, and nothing but the empty string is written to
\* a child; the six conditional commands are the only ones that run.
C6_SuppressedWhileInactive ==
    [][(/\ LineStep
        /\ inactive_stack > 0
        /\ (IsText(input') \/ NameOn(input') \in CommandNames \ Conditionals)
        /\ (NameOn(input') \in ExecFamily => allow_exec)) =>
        /\ result' = Ok(<<>>)
        /\ UNCHANGED ctxvars
        /\ Effects(events', {"spawn", "wait", "open"}) = {}
        /\ \A i \in Effects(events', {"write"}) : events'[i].e.text = <<>>
    ]_vars

\* '#endin' was passed over inside an inactive branch with a child open.
C6_Witness ==
    /\ inactive_stack > 0
    /\ in_stack # <<>>
    /\ allow_exec
    /\ input = Cmd(S_endin, <<>>)
    /\ result = Ok(<<>>)

----------------------------------------------------------------------------
(* #in blocks: lines given one by one to process_line.                     *)

PipeLines ==
    {Cmd(S_in, Cat), Cmd(S_endin, <<>>), A, Cmd(S_exec, Echo),
     Cmd(S_in, False)}

InitPipe ==
    InitContext /\ InitDriver /\ InitSubst /\ InitAux

NextPipe ==
    \E l \in PipeLines : \E env \in EnvsFor(l) : CallLine(l, env, PipeLen)

SpecPipe == InitPipe /\ [][NextPipe]_vars

LineKinds == {"text", "command", "invalid", "failed"}

\* The own output of the line a step processed: what the line computed before
\* it was routed.
OwnOutput(evs) ==
    LET at == Effects(evs, LineKinds)
    IN  evs[CHOOSE i \in at : \A j \in at : j <= i].e.text

\* The child that is at place n of the stack after the step, as it was before
\* the step: a child just spawned has read nothing.
ChildBefore(n) ==
    IF n <= Len(in_stack) THEN in_stack[n]
    ELSE [cmd |-> in_stack'[n].cmd, stdin |-> <<>>]

\* C7: a line that succeeds with a child open afterwards returns the empty
\* string, its own output is appended to the input of the innermost child,
\* and no other child receives anything; so the output of an inner #endin
\* goes to the enclosing child.  With no child open afterwards the line
\* returns its own output: the result receives text only from lines outside
\* every block and from the #endin that empties the stack.  A line that
\* fails writes to no child.
C7_RouteToInnermost ==
    [][LineStep =>
        LET n == Len(in_stack')
        IN  /\ (result'.tag = "Ok" /\ n = 0) => result'.val = OwnOutput(events')
            /\ (result'.tag = "Ok" /\ n > 0) =>
                  /\ result'.val = <<>>
                  /\ in_stack'[n].cmd = ChildBefore(n).cmd
                  /\ in_stack'[n].stdin
                        = ChildBefore(n).stdin \o OwnOutput(events')
                  /\ \A i \in 1..(n - 1) : in_stack'[i] = in_stack[i]
            /\ result'.tag = "Err" =>
                  /\ Effects(events', {"write"}) = {}
                  /\ \A i \in 1..n : in_stack'[i] = in_stack[i]
    ]_vars

\* An inner '#endin' has just handed the inner child's output, a text line,
\* to the enclosing child, which had read a text line before.
C7_Witness ==
    /\ input = Cmd(S_endin, <<>>)
    /\ result = Ok(<<>>)
    /\ Len(in_stack) = 1
    /\ in_stack[1].stdin \in {<<"A", NL, "A", NL>>, <<"x", NL, "x", NL>>}
    /\ \E i \in Effects(events, {"wait"}) :
          events[i].e.n = 2 /\ events[i].e.text # <<>>

\* C19: '#endin' on an active context with exec allowed.  With in_stack
\* empty it fails with UnexpectedCommand and the Context is unchanged.
\* Otherwise the handler removes the top child and nothing else; the child
\* is waited for once, having been given the whole of its input, so its input
\* is closed before the wait; the children below the new top are as they
\* were, and the new top is the same child, which may have received the
\* output; a child that exited non-zero makes the line fail with ChildFailed
\* and is removed all the same.
C19_EndinPopsTop ==
    [][(LineStep /\ input' = Cmd(S_endin, <<>>) /\ allow_exec
                /\ inactive_stack = 0) =>
        LET n == Len(in_stack)
        IN  /\ n = 0 =>
                  /\ result' = Err("UnexpectedCommand", S_endin, 0)
                  /\ UNCHANGED <<macros, inactive_stack, used_if, allow_exec,
                                 in_stack>>
            /\ n > 0 =>
                  /\ process_endin(<<>>, Context).ctx.in_stack
                        = Take(in_stack, n - 1)
                  /\ Len(in_stack') = n - 1
                  /\ \A i \in 1..(n - 2) : in_stack'[i] = in_stack[i]
                  /\ n > 1 =>
                        /\ in_stack'[n - 1].cmd = in_stack[n - 1].cmd
                        /\ in_stack'[n - 1].stdin \in
                              {in_stack[n - 1].stdin,
                               in_stack[n - 1].stdin
                                  \o shell(in_stack[n].cmd,
                                           in_stack[n].stdin).stdout}
                  /\ \E i \in DOMAIN events' :
                        /\ Effects(events', {"wait"}) = {i}
                        /\ events'[i].e.n = n
                        /\ events'[i].e.name = in_stack[n].cmd
                        /\ events'[i].e.text = in_stack[n].stdin
                  /\ shell(in_stack[n].cmd, in_stack[n].stdin).status # 0 =>
                        result' = Err("ChildFailed", <<>>,
                                      shell(in_stack[n].cmd,
                                            in_stack[n].stdin).status)
                  /\ UNCHANGED <<macros, inactive_stack, used_if, allow_exec>>
    ]_vars

\* An inner child that exited non-zero has been removed by the '#endin' that
\* failed with ChildFailed, and the enclosing child is still open with the
\* text it had read.
C19_Witness ==
    /\ input = Cmd(S_endin, <<>>)
    /\ result = Err("ChildFailed", <<>>, 1)
    /\ Len(in_stack) = 1
    /\ in_stack[1].cmd = Cat
    /\ in_stack[1].stdin # <<>>
    /\ \E i \in Effects(events, {"wait"}) :
          events[i].e.n = 2 /\ events[i].e.name = False

----------------------------------------------------------------------------
(* Files: streams of #include lines, text and an unknown command, in       *)
(* several process_* calls on one Context.                                 *)

FileLines ==
    {Cmd(S_include, <<"d">>), Cmd(S_include, <<"e">>),
     Cmd(S_include, <<"n">>), Cmd(S_include, <<"m">>), B, Cmd(S_bad, <<>>)}

FileNames ==
    {<<"d">>, <<"e">>, <<"n">>, <<"m">>}

AllEnvs ==
    [order : Orders, epipe : BOOLEAN]

InitFile ==
    InitContext /\ InitDriver /\ InitSubst /\ InitAux

NextFile ==
    \/ \E n \in 0..FileLen : CallStr(n, FileCalls)
    \/ \E l \in FileLines : \E env \in EnvsFor(l) : Line(l, env)
    \/ Return
    \/ \E f \in FileNames : \E env \in EnvsFor(Cmd(S_include, f)) :
          CallFile(f, env, FileCalls)

SpecFile == InitFile /\ [][NextFile]_vars

Layer(filename, line) ==
    [filename |-> filename, line |-> line]

FailedOn(l) ==
    status = "idle" /\ result.tag = "Err" /\ cur_name = StringLabel
    /\ input = l

AfterD(m) ==
    remove(insert(m, B, Y), A)

\* C10: entering and leaving process_str leaves the Context as the call
\* before left it; '#include d' runs d's lines on the includer's Context:
\* its text sees the includer's macros, and what it defines and undefines
\* holds for the lines after the #include.
C10_ContextPersists ==
    [][/\ (status = "idle" /\ status' = "running") => UNCHANGED ctxvars
       /\ (status = "running" /\ status' = "idle" /\ result'.tag = "Ok") =>
            UNCHANGED ctxvars
       /\ (status = "running" /\ input' = Cmd(S_include, <<"d">>)
           /\ num' = num + 1) =>
            /\ macros' = AfterD(macros)
            /\ acc' = acc \o (IF A \in DOMAIN macros THEN macros[A] ELSE A)
                          \o <<NL>> \o Y \o <<NL>>
       /\ (status = "running" /\ input' = B /\ num' = num + 1) =>
            acc' = acc \o (IF B \in DOMAIN macros THEN macros[B] ELSE B)
                       \o <<NL>>
    ]_vars

\* A second call expands B as the file included by the first call defined it.
C10_Witness ==
    /\ calls = 2
    /\ status = "running"
    /\ input = B
    /\ num = 1
    /\ acc = Y \o <<NL>>
    /\ \E i \in DOMAIN events : events[i].e.text = Y \o <<NL>>

----------------------------------------------------------------------------
(* The macro table: #define and #undef lines and text, given one by one to *)
(* process_line on an active context.                                      *)

XY == <<"x", " ", "y">>

\* "#define name value"
DefineLine(name, value) ==
    Cmd(S_define, name \o <<" ">> \o value)

EditLines ==
    {DefineLine(A, X), DefineLine(A, Y), Cmd(S_define, A), DefineLine(B, XY),
     Cmd(S_undef, A), Cmd(S_undef, B), A, B}

InitEdit ==
    InitContext /\ InitDriver /\ InitSubst /\ InitAux

NextEdit ==
    \E l \in EditLines : \E env \in EnvsFor(l) : CallLine(l, env, EditLen)

SpecEdit == InitEdit /\ [][NextEdit]_vars

\* The table m with name bound to value and nothing else changed.
Bound(m, m2, name, value) ==
    /\ DOMAIN m2 = DOMAIN m \cup {name}
    /\ m2[name] = value
    /\ \A k \in DOMAIN m \ {name} : m2[k] = m[k]

\* C11: '#define NAME VALUE' binds NAME to the text after the first space,
\* whatever NAME was bound to; '#define NAME' binds it to the empty string,
\* and a text line NAME then gives an empty line; '#undef NAME' takes NAME
\* out of the table and nothing else, defined or not, and a text line NAME
\* then comes back as it is; both commands return the empty string.
C11_DefineUndef ==
    [][LineStep =>
        /\ \A name \in MacroNames :
              /\ \A value \in {X, Y, XY} :
                    input' = DefineLine(name, value) =>
                        /\ result' = Ok(<<>>)
                        /\ Bound(macros, macros', name, value)
              /\ input' = Cmd(S_define, name) =>
                    /\ result' = Ok(<<>>)
                    /\ Bound(macros, macros', name, <<>>)
              /\ input' = Cmd(S_undef, name) =>
                    /\ result' = Ok(<<>>)
                    /\ DOMAIN macros' = DOMAIN macros \ {name}
                    /\ \A k \in DOMAIN macros' : macros'[k] = macros[k]
              /\ input' = name =>
                    /\ macros' = macros
                    /\ name \notin DOMAIN macros =>
                          result' = Ok(name \o <<NL>>)
                    /\ (name \in DOMAIN macros /\ macros[name] = <<>>) =>
                          result' = Ok(<<NL>>)
    ]_vars

\* A, bound to x from the start, was bound anew by '#define A' and the text
\* line A gave an empty line.
C11_Witness ==
    /\ calls >= 2
    /\ input = A
    /\ A \in DOMAIN macros
    /\ macros[A] = <<>>
    /\ result = Ok(<<NL>>)

----------------------------------------------------------------------------
(* Classification: lines that begin with '#', with '##', with a blank, or  *)
(* with none of these, given one by one to process_line.                   *)

Hash == <<"#">>

ClassLines ==
    {DefineLine(A, Y),
     Hash \o DefineLine(A, Y),
     <<" ">> \o DefineLine(A, Y),
     <<"#", " ">> \o S_undef \o <<" ">> \o A,
     Hash \o Cmd(S_ifndef, B),
     Hash \o Cmd(S_in, Cat),
     Hash \o Hash,
     Hash,
     A}

InitClass ==
    InitContext /\ InitDriver /\ InitSubst /\ InitAux

NextClass ==
    \E l \in ClassLines : \E env \in EnvsFor(l) : CallLine(l, env, ClassLen)

SpecClass == InitClass /\ [][NextClass]_vars

\* The line begins with '#' and goes on with anything but '#'.
CommandShaped(l) ==
    /\ l # <<>>
    /\ l[1] = "#"
    /\ Len(l) >= 2 => l[2] # "#"

\* What substitution makes of the text "xxx A yyy" where A is the one word of
\* the line that may be a key.
WithA(before, after, m) ==
    before \o (IF A \in DOMAIN m THEN m[A] ELSE A) \o after \o <<NL>>

\* C12: a line is looked up as a command if and only if it begins with '#'
\* and its second character is not '#' (blanks after the '#' are skipped);
\* a line that begins with '##' is text, returned without its first '#' and
\* with its macros replaced, and changes nothing in the Context whatever
\* command it spells; a line with a blank before the '#' is text returned
\* whole, with its macros replaced.
C12_Classification ==
    [][LineStep =>
        /\ CommandShaped(input') <=> Effects(events', {"text"}) = {}
        /\ CommandShaped(input') =>
              Effects(events', {"command", "invalid"}) # {}
        /\ input' = DefineLine(A, Y) => Bound(macros, macros', A, Y)
        /\ input' = <<"#", " ">> \o S_undef \o <<" ">> \o A =>
              /\ result' = Ok(<<>>)
              /\ A \notin DOMAIN macros'
        /\ input' = Hash =>
              /\ result'.tag = "Err"
              /\ result'.err.cause = Cause("InvalidCommand", <<>>, 0)
        /\ ~CommandShaped(input') =>
              /\ UNCHANGED ctxvars
              /\ result'.tag = "Ok"
        /\ input' = Hash \o DefineLine(A, Y) =>
              result'.val = WithA(Cmd(S_define, <<>>) \o <<" ">>,
                                  <<" ">> \o Y, macros)
        /\ input' = <<" ">> \o DefineLine(A, Y) =>
              result'.val = WithA(<<" ">> \o Cmd(S_define, <<>>) \o <<" ">>,
                                  <<" ">> \o Y, macros)
        /\ input' = Hash \o Cmd(S_ifndef, B) =>
              result'.val = Cmd(S_ifndef, <<>>) \o <<" ">>
                            \o (IF B \in DOMAIN macros THEN macros[B] ELSE B)
                            \o <<NL>>
        /\ input' = Hash \o Cmd(S_in, Cat) =>
              result'.val = Cmd(S_in, Cat) \o <<NL>>
        /\ input' = Hash \o Hash => result'.val = Hash \o <<NL>>
        /\ input' = A => result'.val = WithA(<<>>, <<>>, macros)
    ]_vars

\* '##define A y' came back as '#define x y' and left A bound to x.
C12_Witness ==
    /\ input = Hash \o DefineLine(A, Y)
    /\ A \in DOMAIN macros
    /\ macros[A] = X
    /\ result = Ok(Cmd(S_define, X \o <<" ">> \o Y) \o <<NL>>)

----------------------------------------------------------------------------
(* Output: lines that print, given one by one to process_line.             *)

OutLines ==
    {A, <<>>, Cmd(S_exec, Echo), Cmd(S_exec, Printf), Cmd(S_in, Cat),
     Cmd(S_in, Printf), Cmd(S_endin, <<>>), DefineLine(B, XY)}

InitOut ==
    InitContext /\ InitDriver /\ InitSubst /\ InitAux

NextOut ==
    \E l \in OutLines : \E env \in EnvsFor(l) : CallLine(l, env, OutLen)

SpecOut == InitOut /\ [][NextOut]_vars

\* C13: what a successful process_line returns is the empty string or ends
\* with one line terminator, and no more than one.
C13_OneTerminator ==
    (status = "idle" /\ result.tag = "Ok") =>
        \/ result.val = <<>>
        \/ /\ ends_with(result.val, <<NL>>)
           /\ ~ends_with(result.val, <<NL, NL>>)

----------------------------------------------------------------------------
(* Processing twice: a text line goes through process_line, and what came  *)
(* back goes through it again on the same Context.                         *)

TwiceAlphabet == {"A", "#", CR, " "}

RECURSIVE TwiceStrings(_)
TwiceStrings(n) ==
    IF n = 0 THEN {<<>>}
    ELSE TwiceStrings(n - 1)
         \cup {Append(s, c) : s \in {t \in TwiceStrings(n - 1) : Len(t) = n - 1},
                              c \in TwiceAlphabet}

\* The lines that do not begin with the command marker.
TwiceLines ==
    {l \in TwiceStrings(TwiceLen) : l = <<>> \/ Head(l) # "#"}

TwiceTables ==
    {<<>>, (A :> X), (A :> Hash \o X), (A :> <<CR>>), (A :> B) @@ (B :> X)}

InitTwice ==
    /\ macros \in TwiceTables
    /\ inactive_stack = 0
    /\ used_if = FALSE
    /\ allow_exec = FALSE
    /\ in_stack = <<>>
    /\ InitDriver
    /\ InitSubst
    /\ InitAux

\* process_line(l, context)
Once(l, env) ==
    calls = 0 /\ CallLine(l, env, 1)

\* process_line(o, context), o being what the call before returned.
Again(env) ==
    calls = 1 /\ result.tag = "Ok" /\ CallLine(result.val, env, 2)

NextTwice ==
    \/ \E l \in TwiceLines : \E env \in EnvsFor(l) : Once(l, env)
    \/ \E env \in EnvsFor(result.val) : Again(env)

SpecTwice == InitTwice /\ [][NextTwice]_vars

\* A step that processes the output of the first call.
SecondPass ==
    calls = 1 /\ calls' = 2

\* C14 as it is claimed: the output of a line that does not begin with '#',
\* processed again with the same table, comes back unchanged.
C14_Idempotent ==
    [][SecondPass => result' = result]_vars

\* C14, amended: the output comes back unchanged when it does not begin with
\* '#' itself and ends with a line feed that no carriage return precedes.
C14_IdempotentOnPlainOutput ==
    [][(/\ SecondPass
        /\ ends_with(result.val, <<NL>>)
        /\ ~ends_with(result.val, <<CR, NL>>)
        /\ Head(result.val) # "#") => result' = result
    ]_vars

\* The line "A A" came back as "x x" twice.
C14_Witness ==
    /\ calls = 2
    /\ input = <<"x", " ", "x", NL>>
    /\ result = Ok(<<"x", " ", "x", NL>>)

----------------------------------------------------------------------------
(* Streams that may end inside an #in block.                               *)

BlockLines ==
    {Cmd(S_in, Cat), Cmd(S_endin, <<>>), A, Cmd(S_exec, Echo)}

InitBlock ==
    InitContext /\ InitDriver /\ InitSubst /\ InitAux

NextBlock ==
    \/ \E n \in 0..BlockLen : CallStr(n, 1)
    \/ \E l \in BlockLines : \E env \in EnvsFor(l) : Line(l, env)
    \/ Return

SpecBlock == InitBlock /\ [][NextBlock]_vars

\* C15: a call that reaches the end of its input with a child still open
\* does not return success: whenever a call has returned Ok, no #in block is
\* open.
C15_OpenBlockReported ==
    (status = "idle" /\ result.tag = "Ok") => in_stack = <<>>

----------------------------------------------------------------------------
(* Nested groups: one outer if-group with a text line in each branch, and  *)
(* a complete group without text inside one of its branches.               *)

Openers == {Cmd(S_ifdef, A), Cmd(S_ifndef, A)}

Elifs == {Cmd(S_elifdef, A), Cmd(S_elifndef, A)}

\* opener, text, #elif*, text, #elif* or #else, text, #endif
OuterGroups ==
    {<<o, B, b1, B, b2, B, Cmd(S_endif, <<>>)>> :
        o \in Openers, b1 \in Elifs, b2 \in Elifs \cup {Cmd(S_else, <<>>)}}

\* Complete groups that hold no text line.
NestedGroups ==
    {<<o, Cmd(S_endif, <<>>)>> : o \in Openers}
    \cup {<<o, Cmd(S_else, <<>>), Cmd(S_endif, <<>>)>> : o \in Openers}

\* The stream s with the lines of g put in after its line number k - 1.
InsertAt(s, k, g) ==
    Take(s, k) \o g \o Drop(s, k)

\* The places of an outer group where a branch begins: after the opener and
\* after each of the two lines that open a later branch.
BranchStarts == {1, 3, 5}

NestStreams ==
    OuterGroups
    \cup {InsertAt(s, k, g) : s \in OuterGroups, k \in BranchStarts,
                              g \in NestedGroups}

InitNest ==
    InitContext /\ InitDriver /\ InitSubst /\ InitAux

NextNest ==
    \E s \in NestStreams : \E env \in EnvsFor(B) : CallBuf(s, env, 1)

SpecNest == InitNest /\ [][NextNest]_vars

\* C16: a call on an outer group with a complete group inside one of its
\* branches returns what the call on the outer group alone returns from
\* the same Context, and leaves the same depth: the branches of the outer
\* group are taken and skipped as if the nested lines were not there.
C16_NestedTransparent ==
    [][(calls' = calls + 1) =>
        \A s \in OuterGroups : \A k \in BranchStarts : \A g \in NestedGroups :
            stream' = InsertAt(s, k, g) =>
                \E env \in EnvsFor(B) :
                    LET alone == process_buf(s, StringLabel, Context, env)
                    IN  /\ result' = alone.res
                        /\ inactive_stack' = alone.ctx.inactive_stack
    ]_vars

----------------------------------------------------------------------------
(* '#else' beside '#elifdef A': conditional lines given one by one to      *)
(* process_line.                                                           *)

ElseLines ==
    {Cmd(S_ifdef, A), Cmd(S_ifndef, A), Cmd(S_elifdef, A), Cmd(S_else, <<>>),
     Cmd(S_endif, <<>>)}

InitElse ==
    InitContext /\ InitDriver /\ InitSubst /\ InitAux

NextElse ==
    \E l \in ElseLines : \E env \in EnvsFor(l) : CallLine(l, env, ElseLen)

SpecElse == InitElse /\ [][NextElse]_vars

\* The line l leaves the Context and returns the result that the line other
\* would have left and returned from the same state.
SameAs(other) ==
    \E env \in EnvsFor(other) :
        LET r == process_line(other, Context, env)
        IN  /\ macros' = r.ctx.macros
            /\ inactive_stack' = r.ctx.inactive_stack
            /\ used_if' = r.ctx.used_if
            /\ allow_exec' = r.ctx.allow_exec
            /\ in_stack' = r.ctx.in_stack
            /\ result' = r.res

\* C17: with A defined, '#else' does what '#elifdef A' would have done from
\* the same state, and '#elifdef A' what '#else' would have done: both
\* return the empty string and take the depth from 0 to 1, from 1 to 0 when
\* used_if is false, and leave it otherwise; nothing else changes.
C17_ElseIsElifdefDefined ==
    [][(LineStep /\ A \in DOMAIN macros) =>
        /\ input' = Cmd(S_else, <<>>) => SameAs(Cmd(S_elifdef, A))
        /\ input' = Cmd(S_elifdef, A) => SameAs(Cmd(S_else, <<>>))
        /\ input' \in {Cmd(S_else, <<>>), Cmd(S_elifdef, A)} =>
              /\ result' = Ok(<<>>)
              /\ inactive_stack' =
                    IF inactive_stack = 0 THEN 1
                    ELSE IF inactive_stack = 1 /\ ~used_if THEN 0
                    ELSE inactive_stack
              /\ UNCHANGED <<macros, used_if, allow_exec, in_stack>>
    ]_vars

\* '#else' has left the depth at 1 because a branch of the group had been
\* taken, with A defined.
C17_Witness ==
    /\ input = Cmd(S_else, <<>>)
    /\ A \in DOMAIN macros
    /\ used_if
    /\ inactive_stack = 1
    /\ \E i \in Effects(events, {"command"}) : events[i].e.pre = 1

----------------------------------------------------------------------------
(* '#else', '#endif' and '#endin' with an argument: lines given one by one *)
(* to process_line.                                                        *)

ArgLines ==
    {Cmd(S_else, X), Cmd(S_endif, X), Cmd(S_endin, X), Cmd(S_ifdef, B),
     Cmd(S_ifdef, A), Cmd(S_in, Cat)}

InitArg ==
    InitContext /\ InitDriver /\ InitSubst /\ InitAux

NextArg ==
    \E l \in ArgLines : \E env \in EnvsFor(l) : CallLine(l, env, ArgLen)

SpecArg == InitArg /\ [][NextArg]_vars

\* The line failed with TooManyParameters naming the command and the Context
\* is as it was before the line.
Refused(name) ==
    /\ result' = Err("TooManyParameters", name, 0)
    /\ UNCHANGED <<macros, inactive_stack, used_if, allow_exec, in_stack>>

----------------------------------------------------------------------------
(* The pipe machine: the engine and the child of one '#in cat' block as    *)
(* two processes joined by two pipes of bounded size.  The engine writes   *)
(* each line of the block to the child's stdin with write_all, which       *)
(* blocks while the pipe is full, and reads the child's stdout only in     *)
(* wait_with_output, at '#endin'.  The child copies its input to its       *)
(* output, CatBuf bytes at a time, and exits at the end of its input.      *)

RECURSIVE Sum(_)
Sum(s) ==
    IF s = <<>> THEN 0 ELSE Head(s) + Sum(Tail(s))

Smaller(a, b) ==
    IF a < b THEN a ELSE b

Fill(k) ==
    [i \in 1..k |-> "a"]

Plans ==
    UNION {[1..n -> 1..LineBytes] : n \in 1..PlanLines}

InitDuplex ==
    /\ macros = <<>>
    /\ inactive_stack = 0
    /\ used_if = FALSE
    /\ allow_exec = TRUE
    /\ in_stack = <<>>
    /\ InitDriver /\ InitSubst
    /\ stream = <<>>
    /\ plan \in Plans
    /\ lineno = 0
    /\ wleft = 0
    /\ epc = "idle"
    /\ closed = FALSE
    /\ pin = 0
    /\ cheld = 0
    /\ pout = 0
    /\ cexit = FALSE
    /\ got = 0

\* The line '#in cat': process_in spawns the child with both pipes.
EngineIn ==
    /\ epc = "idle"
    /\ SetContext(process_in(Cat, Context).ctx)
    /\ epc' = "block"
    /\ UNCHANGED <<drivervars, substvars, stream, plan, lineno, wleft, closed,
                   pin, cheld, pout, cexit, got>>

\* The next line of the block reaches the end of process_line, which is to
\* write all of it to the child.
EngineLine ==
    /\ epc = "block"
    /\ wleft = 0
    /\ lineno < Len(plan)
    /\ lineno' = lineno + 1
    /\ wleft' = plan[lineno + 1]
    /\ UNCHANGED <<ctxvars, drivervars, substvars, stream, plan, epc, closed,
                   pin, cheld, pout, cexit, got>>

\* One write of write_all: as many bytes as the pipe has room for; with no
\* room the engine is blocked.
EngineWrite ==
    /\ epc = "block"
    /\ wleft > 0
    /\ pin < StdinCap
    /\ LET k == Smaller(wleft, StdinCap - pin)
       IN  /\ pin' = pin + k
           /\ wleft' = wleft - k
           /\ in_stack' = [in_stack EXCEPT ![Len(in_stack)].stdin = @ \o Fill(k)]
    /\ UNCHANGED <<macros, inactive_stack, used_if, allow_exec, drivervars,
                   substvars, stream, plan, lineno, epc, closed, cheld, pout,
                   cexit, got>>

\* process_endin that waits for the child with its stdin still open.
EngineEndin_keep_open ==
    /\ epc = "block"
    /\ wleft = 0
    /\ lineno = Len(plan)
    /\ in_stack' = Take(in_stack, Len(in_stack) - 1)
    /\ epc' = "wait"
    /\ UNCHANGED <<macros, inactive_stack, used_if, allow_exec, drivervars,
                   substvars, stream, plan, lineno, wleft, closed, pin, cheld,
                   pout, cexit, got>>

\* The line '#endin': process_endin pops the child and enters
\* wait_with_output, which drops the child's stdin first.
EngineEndin ==
    /\ epc = "block"
    /\ wleft = 0
    /\ lineno = Len(plan)
    /\ in_stack' = Take(in_stack, Len(in_stack) - 1)
    /\ closed' = TRUE
    /\ epc' = "wait"
    /\ UNCHANGED <<macros, inactive_stack, used_if, allow_exec, drivervars,
                   substvars, stream, plan, lineno, wleft, pin, cheld, pout,
                   cexit, got>>

\* wait_with_output reads what the child has written.
EngineRead ==
    /\ epc = "wait"
    /\ pout > 0
    /\ got' = got + pout
    /\ pout' = 0
    /\ UNCHANGED <<ctxvars, drivervars, substvars, stream, plan, lineno, wleft,
                   epc, closed, pin, cheld, cexit>>

\* wait_with_output returns: the child's stdout is at its end and the child
\* has exited.
EngineReap ==
    /\ epc = "wait"
    /\ pout = 0
    /\ cexit
    /\ epc' = "done"
    /\ UNCHANGED <<ctxvars, drivervars, substvars, stream, plan, lineno, wleft,
                   closed, pin, cheld, pout, cexit, got>>

\* The child reads when it holds nothing.
ChildRead ==
    /\ ~cexit
    /\ cheld = 0
    /\ pin > 0
    /\ LET k == Smaller(pin, CatBuf)
       IN  pin' = pin - k /\ cheld' = k
    /\ UNCHANGED <<ctxvars, drivervars, substvars, stream, plan, lineno, wleft,
                   epc, closed, pout, cexit, got>>

\* The child writes what it holds; with no room in the pipe it is blocked.
ChildWrite ==
    /\ ~cexit
    /\ cheld > 0
    /\ pout < StdoutCap
    /\ LET k == Smaller(cheld, StdoutCap - pout)
       IN  pout' = pout + k /\ cheld' = cheld - k
    /\ UNCHANGED <<ctxvars, drivervars, substvars, stream, plan, lineno, wleft,
                   epc, closed, pin, cexit, got>>

\* The child finds the end of its input and exits.
ChildExit ==
    /\ ~cexit
    /\ cheld = 0
    /\ pin = 0
    /\ closed
    /\ cexit' = TRUE
    /\ UNCHANGED <<ctxvars, drivervars, substvars, stream, plan, lineno, wleft,
                   epc, closed, pin, cheld, pout, got>>

Engine ==
    EngineIn \/ EngineLine \/ EngineWrite \/ EngineEndin \/ EngineRead
        \/ EngineReap

Child ==
    ChildRead \/ ChildWrite \/ ChildExit

NextDuplex ==
    Engine \/ Child

\* Each of the two processes runs when it is not blocked.
SpecDuplex ==
    InitDuplex /\ [][NextDuplex]_vars /\ WF_vars(Engine) /\ WF_vars(Child)

\* The engine is blocked in write_all on a full stdin pipe and the child is
\* blocked writing to a full stdout pipe.
Deadlocked ==
    /\ epc = "block"
    /\ wleft > 0
    /\ pin = StdinCap
    /\ ~cexit
    /\ cheld > 0
    /\ pout = StdoutCap

\* Everything the child writes before '#endin' has room in the stdout pipe.
Fits ==
    epc = "block" /\ Sum(plan) <= StdoutCap

\* The block is complete: '#endin' has returned with all of the output.
Completed ==
    epc = "done" /\ got = Sum(plan) /\ in_stack = <<>>

\* C20: once the engine is blocked writing to a full stdin pipe while the
\* child is blocked writing to a full stdout pipe, both stay so for ever and
\* '#endin' is never reached; and a block whose child's output fits in the
\* stdout pipe always completes.
C20_PipeDeadlock ==
    /\ [](Deadlocked => [](Deadlocked /\ ~closed))
    /\ Fits ~> Completed

\* The deadlock: the engine has begun the last line of the block and is
\* blocked, and so is the child.
C20_Witness ==
    /\ Deadlocked
    /\ lineno = Len(plan)
    /\ got = 0
    /\ Len(in_stack) = 1

----------------------------------------------------------------------------
(* The end of the substitution loop: '#define' lines, one of them with an  *)
(* empty argument, and text lines, given one by one to process_line.       *)

Empty == <<>>

LoopLines ==
    {Cmd(S_define, Empty), Cmd(S_define, A \o <<" ">> \o A),
     Cmd(S_define, A \o <<" ">> \o B), Cmd(S_define, B \o <<" ">> \o A),
     Cmd(S_define, B \o <<" ">> \o X), A, Empty}

\* The orders in which a table with the keys "", A and B may be iterated.
LoopOrders ==
    {<<Empty, A, B>>, <<A, B, Empty>>, <<B, Empty, A>>, <<B, A, Empty>>}

LoopEnvs ==
    [order : {o \in LoopOrders : DOMAIN macros = {} => o = <<Empty, A, B>>},
     epipe : {FALSE}]

InitLoop ==
    /\ macros = <<>>
    /\ inactive_stack = 0
    /\ used_if = FALSE
    /\ allow_exec = FALSE
    /\ in_stack = <<>>
    /\ InitDriver /\ InitSubst /\ InitAux

NextLoop ==
    \E l \in LoopLines : \E env \in LoopEnvs : CallLine(l, env, LoopLen)

SpecLoop == InitLoop /\ [][NextLoop]_vars

\* The word name occurs in text with no word character on either side.
WholeWordIn(name, text) ==
    /\ name # <<>>
    /\ \E i \in Occurrences(text, name) :
          /\ i > 0 => ~is_word_char(text[i])
          /\ i + Len(name) < Len(text) => ~is_word_char(text[i + Len(name) + 1])

\* The value of the macro n contains the name k as a whole word, directly or
\* through at most steps other macros.
RECURSIVE Leads(_, _, _)
Leads(n, k, steps) ==
    \/ WholeWordIn(k, macros[n])
    \/ /\ steps > 0
       /\ \E j \in DOMAIN macros :
             WholeWordIn(j, macros[n]) /\ Leads(j, k, steps - 1)

SelfContaining ==
    \E n \in DOMAIN macros : Leads(n, n, Cardinality(DOMAIN macros))

\* C21: a text line is processed to its end unless the value of some macro
\* contains, directly or through other macros, its own name as a whole word;
\* so also with the table that a '#define' with an empty argument leaves.
C21_SubstitutionTerminates ==
    status = "hung" => SelfContaining

----------------------------------------------------------------------------
(* Command lookup and inactive branches: known and unknown commands given  *)
(* one by one to process_line.                                             *)

LookupLines ==
    {Cmd(S_ifdef, B), Cmd(S_endif, Empty), Cmd(S_bad, Empty), Cmd(S_bad, X),
     Cmd(S_exec, Echo), Cmd(S_in, Cat), Cmd(S_endin, Empty), A}

InitLookup ==
    InitContext /\ InitDriver /\ InitSubst /\ InitAux

NextLookup ==
    \E l \in LookupLines : \E env \in EnvsFor(l) : CallLine(l, env, LookupLen)

SpecLookup == InitLookup /\ [][NextLookup]_vars

\* The line l is a command line whose name the lookup does not find.
NotFound(l) ==
    /\ ~classify(l).text
    /\ \/ classify(l).command_name \notin CommandNames
       \/ classify(l).command_name \in ExecFamily /\ ~allow_exec

\* C22: a command line whose name is not in the registry, or is exec, in or
\* endin while allow_exec is false, fails with InvalidCommand carrying that
\* name at every depth of inactive_stack, inside an inactive branch too, and
\* changes nothing.
C22_LookupBeforeGate ==
    [][(LineStep /\ NotFound(input')) =>
        /\ result' = Err("InvalidCommand", classify(input').command_name, 0)
        /\ UNCHANGED ctxvars
        /\ Effects(events', {"spawn", "wait", "write", "open"}) = {}
    ]_vars

\* An unknown command has failed inside an inactive branch.
C22_Witness ==
    /\ inactive_stack > 0
    /\ classify(input).command_name = S_bad
    /\ result = Err("InvalidCommand", S_bad, 0)

----------------------------------------------------------------------------
(* The depth of inactive_stack over groups: two process_str calls on one   *)
(* Context, with conditional lines, text and the #include of a file that   *)
(* leaves a group open.                                                    *)

DepthLines ==
    {Cmd(S_ifdef, A), Cmd(S_ifndef, A), Cmd(S_elifdef, A), Cmd(S_else, Empty),
     Cmd(S_endif, Empty), B, Cmd(S_include, <<"u">>)}

InitDepth ==
    InitContext /\ InitDriver /\ InitSubst /\ InitAux

NextDepth ==
    \/ \E n \in 1..DepthLen : CallStr(n, 2)
    \/ \E l \in DepthLines : \E env \in EnvsFor(l) : Line(l, env)
    \/ Return

SpecDepth == InitDepth /\ [][NextDepth]_vars

\* Some open group, at whatever depth of nesting, is in a branch that began
\* with inactive_stack above 0.
InShutBranch ==
    \E i \in DOMAIN groups : groups[i].shut

\* A step that takes one line of the stream through process_line.
StreamStep ==
    remaining' = remaining - 1

\* C23: in a well-nested sequence of lines, the '#endif' of a group leaves
\* inactive_stack as it was just before the group's '#ifdef' or '#ifndef';
\* no text line inside a branch that began inactive, whatever groups are
\* nested between, is emitted; an '#endif' at depth 0 leaves the depth at 0;
\* and the depth is carried from line to line, out of an included file and
\* into the next process_str call: while a group is open in a branch that
\* began inactive, inactive_stack is above 0.
C23_DepthBalanced ==
    /\ []((wellnested /\ InShutBranch) => inactive_stack > 0)
    /\ [](\A o \in TextSeen : (o.wn /\ o.ingroup /\ o.g.shut) => ~Emitted(o))
    /\ [][(StreamStep /\ wellnested') =>
            /\ (input' = Cmd(S_endif, Empty) /\ groups # <<>>) =>
                  inactive_stack' = Top(groups).depth
            /\ (input' = Cmd(S_endif, Empty) /\ inactive_stack = 0) =>
                  inactive_stack' = 0
            /\ (IsText(input') /\ InShutBranch) =>
                  (acc' = acc /\ UNCHANGED ctxvars)
       ]_vars
    /\ [][(status = "idle" /\ status' = "running") => UNCHANGED ctxvars]_vars

\* The first line of the second process_str call is a text line, and it has
\* been passed over inside the group that the first call left open and
\* inactive.
C23_Witness ==
    /\ calls = 2
    /\ status = "running"
    /\ input = B
    /\ wellnested
    /\ Len(groups) = 1
    /\ groups[1].opener = S_ifndef
    /\ groups[1].shut
    /\ inactive_stack = 1
    /\ acc = <<>>
    /\ num = 1

----------------------------------------------------------------------------
(* Where the output goes: a stream of text, '#in cat', '#endin', and the   *)
(* #include of a file that leaves a child open and of one that does not.   *)

OrderLines ==
    {A, B, Cmd(S_in, Cat), Cmd(S_endin, Empty), Cmd(S_include, <<"p">>),
     Cmd(S_include, <<"d">>)}

InitOrder ==
    InitContext /\ InitDriver /\ InitSubst /\ InitAux

NextOrder ==
    \/ \E n \in 1..OrderLen : CallStr(n, 1)
    \/ \E l \in OrderLines : \E env \in EnvsFor(l) : Line(l, env)
    \/ Return

SpecOrder == InitOrder /\ [][NextOrder]_vars

\* What the source order asks for after one more thing the lines did: st is
\* the input each open child is due, innermost last, and the text due to the
\* result.  A child spawned by '#in' opens a block, the wait of '#endin'
\* closes the innermost one, and the output of a line belongs to the block
\* the line ends in, or to the result when it ends in none.  An '#include'
\* line has no output of its own: what it returns is the output of the lines
\* of its file, which are in the record themselves.
Due(st, e) ==
    IF e.ev = "spawn" /\ e.n > 0
        THEN [st EXCEPT !.stack = Append(@, <<>>)]
    ELSE IF e.ev = "wait" /\ e.n > 0
        THEN [st EXCEPT !.stack = Take(@, Len(@) - 1)]
    ELSE IF e.ev = "command" /\ e.name = S_include
        THEN st
    ELSE IF e.ev \in {"text", "command"}
        THEN IF st.stack = <<>>
             THEN [st EXCEPT !.out = @ \o e.text]
             ELSE [st EXCEPT !.stack[Len(st.stack)] = @ \o e.text]
    ELSE st

RECURSIVE Replay(_, _)
Replay(st, evs) ==
    IF evs = <<>> THEN st ELSE Replay(Due(st, Head(evs).e), Tail(evs))

\* The output of the text line name under the table m.
Expanded(name, m) ==
    (IF name \in DOMAIN m THEN m[name] ELSE name) \o <<NL>>

\* C24: after every line of a stream, each open child has received what it
\* had before followed by the outputs, in source order, of the lines that
\* ended with it as the innermost child, the lines of included files among
\* them, each once; and the result has received the outputs of the lines
\* that ended with no child open, in source order, and nothing else.  So
\* '#include p' with no child open gives the text before p's '#in cat' to
\* the result and the text after it to the child p leaves open, and
\* '#include d' with a child open gives all of d's text to that child.
C24_SourceOrder ==
    [][StreamStep =>
        LET st == Replay([stack |-> [i \in DOMAIN in_stack |->
                                        in_stack[i].stdin],
                          out |-> <<>>],
                         events')
        IN  /\ Len(in_stack') = Len(st.stack)
            /\ \A i \in DOMAIN in_stack' : in_stack'[i].stdin = st.stack[i]
            /\ num' = num + 1 => acc' = acc \o st.out
            /\ (num' = num + 1 /\ input' = Cmd(S_include, <<"p">>)
                /\ in_stack = <<>> /\ inactive_stack = 0) =>
                  /\ acc' = acc \o Expanded(B, macros)
                  /\ in_stack' = <<[cmd |-> Cat,
                                    stdin |-> Expanded(A, macros)]>>
            /\ (num' = num + 1 /\ input' = Cmd(S_include, <<"d">>)
                /\ in_stack # <<>> /\ inactive_stack = 0) =>
                  in_stack'[Len(in_stack)].stdin
                     = in_stack[Len(in_stack)].stdin
                          \o Expanded(A, macros) \o Y \o <<NL>>
    ]_vars

====
